---- MODULE Spec2Model ----
(***************************************************************************)
(* Model of server/check_mongo.py: one diagnostic pass of main() against   *)
(* the "students" collection of a MongoDB server.  The server's collection *)
(* is shared with other clients, so it is a variable that other writers    *)
(* may change between the requests main() issues.                          *)
(***************************************************************************)
EXTENDS Integers, Sequences, FiniteSets, TLC

\* ---- bounds of the model ----
MaxDocs == 6        \* largest collection the server starts with
MaxWrites == 2      \* writes by other clients during one run

\* ---- program constants ----
SAMPLE_LIMIT == 5
EXIT_OK == 0
EXIT_CONNECT == 2
EXIT_QUERY == 3

VARIABLES
    pc,            \* position of main()
    collection,    \* server side: documents of the collection, natural order
    nextId,        \* server side: next fresh document id
    writes,        \* number of writes by other clients so far
    clientCreated, \* MongoClient(...) returned a client object
    closes,        \* number of client.close() calls
    pingIssued,    \* number of ping commands sent
    countIssued,   \* number of count_documents requests sent
    findIssued,    \* number of find requests sent
    counted,       \* count_documents returned
    count,         \* the local variable count
    writesAtCount, \* value of writes when the count was served
    writesAtFind,  \* value of writes when the find was served
    cursor,        \* documents the find cursor yields
    pos,           \* documents already taken from the cursor
    stdout,        \* lines/blocks printed on standard output
    stderr,        \* number of ERROR messages on standard error
    pending,       \* exit status the process will end with
    exitCode,      \* exit status of the ended process, -1 while it runs
    failedAt       \* the call that raised, "none" if none did

vars == <<pc, collection, nextId, writes, clientCreated, closes, pingIssued,
          countIssued, findIssued, counted, count, writesAtCount,
          writesAtFind, cursor, pos, stdout, stderr, pending, exitCode,
          failedAt>>

server == <<collection, nextId, writes>>
requests == <<pingIssued, countIssued, findIssued>>
queryState == <<counted, count, writesAtCount, writesAtFind, cursor, pos>>

\* ---- pure helpers ----
Min(a, b) == IF a <= b THEN a ELSE b

RemoveAt(s, i) == [j \in 1..(Len(s) - 1) |-> IF j < i THEN s[j] ELSE s[j + 1]]

LimitNoCap(s, n) == s

\* cursor.limit(n): at most the first n documents, in natural order
Limit(s, n) == SubSeq(s, 1, Min(n, Len(s)))

IsBlock(l) == l[1] = "doc"

Blocks(out) == SelectSeq(out, IsBlock)

NumBlocks == Len(Blocks(stdout))

\* lines 25-30: the status lines and the branch on count == 0
PrintStatus(out, c) ==
    out \o << <<"connected">>, <<"count", c>> >>
        \o (IF c = 0 THEN << <<"empty">> >>
                     ELSE << <<"showing", SAMPLE_LIMIT>> >>)

PrintDocumentZeroBased(out, i, doc) == Append(out, <<"doc", i - 1, doc>>)

\* lines 34-36: label, rendered document, blank line
PrintDocument(out, i, doc) == Append(out, <<"doc", i, doc>>)

\* ---- initial state ----
Init ==
    /\ pc = "start"
    /\ \E n \in 0..MaxDocs : collection = [i \in 1..n |-> i] /\ nextId = n + 1
    /\ writes = 0
    /\ clientCreated = FALSE
    /\ closes = 0
    /\ pingIssued = 0
    /\ countIssued = 0
    /\ findIssued = 0
    /\ counted = FALSE
    /\ count = 0
    /\ writesAtCount = 0
    /\ writesAtFind = 0
    /\ cursor = <<>>
    /\ pos = 0
    /\ stdout = <<>>
    /\ stderr = 0
    /\ pending = EXIT_OK
    /\ exitCode = -1
    /\ failedAt = "none"

\* ---- exception handlers ----
\* lines 16-18: except around the connection; sys.exit(2) outside any finally
ConnectError(what) ==
    /\ failedAt' = what
    /\ stderr' = stderr + 1
    /\ pending' = EXIT_CONNECT
    /\ pc' = "exit"

QueryErrorNoFinally(what) ==
    /\ failedAt' = what
    /\ stderr' = stderr + 1
    /\ pending' = EXIT_QUERY
    /\ pc' = "exit"

QueryErrorSwallowed(what) ==
    /\ failedAt' = what
    /\ stderr' = stderr
    /\ pending' = pending
    /\ pc' = "finally"

\* lines 37-39: except around the queries; sys.exit(3) unwinds through finally
QueryError(what) ==
    /\ failedAt' = what
    /\ stderr' = stderr + 1
    /\ pending' = EXIT_QUERY
    /\ pc' = "finally"

\* ---- main() ----
\* line 13: MongoClient(...) returns
NewClientOk ==
    /\ pc = "start"
    /\ clientCreated' = TRUE
    /\ pc' = "ping"
    /\ UNCHANGED <<server, closes, requests, queryState, stdout, stderr,
                   pending, exitCode, failedAt>>

\* line 13: MongoClient(...) raises
NewClientFail ==
    /\ pc = "start"
    /\ ConnectError("client")
    /\ UNCHANGED <<server, clientCreated, closes, requests, queryState,
                   stdout, exitCode>>

\* line 15: ping answered
PingOk ==
    /\ pc = "ping"
    /\ pingIssued' = pingIssued + 1
    /\ pc' = "count"
    /\ UNCHANGED <<server, clientCreated, closes, countIssued, findIssued,
                   queryState, stdout, stderr, pending, exitCode, failedAt>>

PingFailContinues ==
    /\ pc = "ping"
    /\ pingIssued' = pingIssued + 1
    /\ failedAt' = "ping"
    /\ stderr' = stderr + 1
    /\ pending' = EXIT_CONNECT
    /\ pc' = "count"
    /\ UNCHANGED <<server, clientCreated, closes, countIssued, findIssued,
                   queryState, stdout, exitCode>>

\* line 15: ping raises (timeout, refused, ...)
PingFail ==
    /\ pc = "ping"
    /\ pingIssued' = pingIssued + 1
    /\ ConnectError("ping")
    /\ UNCHANGED <<server, clientCreated, closes, countIssued, findIssued,
                   queryState, stdout, exitCode>>

CountOkAlwaysFind ==
    /\ pc = "count"
    /\ countIssued' = countIssued + 1
    /\ count' = Len(collection)
    /\ counted' = TRUE
    /\ writesAtCount' = writes
    /\ stdout' = PrintStatus(stdout, Len(collection))
    /\ pc' = "find"
    /\ UNCHANGED <<server, clientCreated, closes, pingIssued, findIssued,
                   writesAtFind, cursor, pos, stderr, pending, exitCode,
                   failedAt>>

\* lines 24-30: count_documents({}) returns; status lines; branch
CountOk ==
    /\ pc = "count"
    /\ countIssued' = countIssued + 1
    /\ count' = Len(collection)
    /\ counted' = TRUE
    /\ writesAtCount' = writes
    /\ stdout' = PrintStatus(stdout, Len(collection))
    /\ pc' = IF Len(collection) = 0 THEN "finally" ELSE "find"
    /\ UNCHANGED <<server, clientCreated, closes, pingIssued, findIssued,
                   writesAtFind, cursor, pos, stderr, pending, exitCode,
                   failedAt>>

CountFailRetry ==
    /\ pc = "count"
    /\ countIssued' = countIssued + 1
    /\ IF countIssued = 0
         THEN UNCHANGED <<pc, failedAt, stderr, pending>>
         ELSE QueryError("count")
    /\ UNCHANGED <<server, clientCreated, closes, pingIssued, findIssued,
                   queryState, stdout, exitCode>>

\* line 24: count_documents({}) raises
CountFail ==
    /\ pc = "count"
    /\ countIssued' = countIssued + 1
    /\ QueryError("count")
    /\ UNCHANGED <<server, clientCreated, closes, pingIssued, findIssued,
                   queryState, stdout, exitCode>>

\* lines 31-32: the first step of the loop sends the find; the server answers
FindOk ==
    /\ pc = "find"
    /\ findIssued' = findIssued + 1
    /\ cursor' = Limit(collection, SAMPLE_LIMIT)
    /\ writesAtFind' = writes
    /\ pos' = 0
    /\ pc' = "iterate"
    /\ UNCHANGED <<server, clientCreated, closes, pingIssued, countIssued,
                   counted, count, writesAtCount, stdout, stderr, pending,
                   exitCode, failedAt>>

\* lines 31-32: the find request raises
FindFail ==
    /\ pc = "find"
    /\ findIssued' = findIssued + 1
    /\ QueryError("find")
    /\ UNCHANGED <<server, clientCreated, closes, pingIssued, countIssued,
                   queryState, stdout, exitCode>>

FetchDocSkipsFirst ==
    /\ pc = "iterate"
    /\ pos < Len(cursor)
    /\ pos' = pos + 1
    /\ stdout' = IF pos = 0 THEN stdout
                 ELSE PrintDocument(stdout, pos, cursor[pos + 1])
    /\ UNCHANGED <<pc, server, clientCreated, closes, requests, counted,
                   count, writesAtCount, writesAtFind, cursor, stderr,
                   pending, exitCode, failedAt>>

\* lines 32-36: the cursor yields the next document; its block is printed
FetchDoc ==
    /\ pc = "iterate"
    /\ pos < Len(cursor)
    /\ pos' = pos + 1
    /\ stdout' = PrintDocument(stdout, pos + 1, cursor[pos + 1])
    /\ UNCHANGED <<pc, server, clientCreated, closes, requests, counted,
                   count, writesAtCount, writesAtFind, cursor, stderr,
                   pending, exitCode, failedAt>>

\* line 32: the cursor raises after it yielded at least one document
FetchFail ==
    /\ pc = "iterate"
    /\ pos >= 1
    /\ QueryError("fetch")
    /\ UNCHANGED <<server, clientCreated, closes, requests, queryState,
                   stdout, exitCode>>

\* line 32: the cursor is exhausted, the loop ends
CursorExhausted ==
    /\ pc = "iterate"
    /\ pos = Len(cursor)
    /\ pc' = "finally"
    /\ UNCHANGED <<server, clientCreated, closes, requests, queryState,
                   stdout, stderr, pending, exitCode, failedAt>>

CloseTwice ==
    /\ pc = "finally"
    /\ closes' = closes + 2
    /\ pc' = "exit"
    /\ UNCHANGED <<server, clientCreated, requests, queryState, stdout,
                   stderr, pending, exitCode, failedAt>>

\* lines 40-41: finally: client.close()
Close ==
    /\ pc = "finally"
    /\ closes' = closes + 1
    /\ pc' = "exit"
    /\ UNCHANGED <<server, clientCreated, requests, queryState, stdout,
                   stderr, pending, exitCode, failedAt>>

\* lines 18, 39, 44: the process ends with the pending status
Exit ==
    /\ pc = "exit"
    /\ exitCode' = pending
    /\ pc' = "done"
    /\ UNCHANGED <<server, clientCreated, closes, requests, queryState,
                   stdout, stderr, pending, failedAt>>

\* ---- other clients of the same server ----
ExternalInsert ==
    /\ pc # "done"
    /\ writes < MaxWrites
    /\ collection' = Append(collection, nextId)
    /\ nextId' = nextId + 1
    /\ writes' = writes + 1
    /\ UNCHANGED <<pc, clientCreated, closes, requests, queryState, stdout,
                   stderr, pending, exitCode, failedAt>>

ExternalDelete ==
    /\ pc # "done"
    /\ writes < MaxWrites
    /\ \E i \in 1..Len(collection) : collection' = RemoveAt(collection, i)
    /\ writes' = writes + 1
    /\ UNCHANGED <<pc, nextId, clientCreated, closes, requests, queryState,
                   stdout, stderr, pending, exitCode, failedAt>>

Next ==
    \/ NewClientOk
    \/ NewClientFail
    \/ PingOk
    \/ PingFail
    \/ CountOk
    \/ CountFail
    \/ FindOk
    \/ FindFail
    \/ FetchDoc
    \/ FetchFail
    \/ CursorExhausted
    \/ Close
    \/ Exit
    \/ ExternalInsert
    \/ ExternalDelete

Main ==
    \/ NewClientOk
    \/ NewClientFail
    \/ PingOk
    \/ PingFail
    \/ CountOk
    \/ CountFail
    \/ FindOk
    \/ FindFail
    \/ FetchDoc
    \/ FetchFail
    \/ CursorExhausted
    \/ Close
    \/ Exit

Spec == Init /\ [][Next]_vars

\* every driver call eventually returns or raises, and the interpreter
\* keeps running the single thread of main()
FairSpec == Spec /\ WF_vars(Main)

\* ---- derived notions used by the properties ----
PingSucceeded == pingIssued = 1 /\ failedAt \notin {"client", "ping"}

QueryFailed == failedAt \in {"count", "find", "fetch"}

Terminated == pc = "done"

\* C1: when client construction or the ping fails, no count and no find
\* request is ever issued and the process ends with exit code 2.
C1_ConnectFailureExits2 ==
    failedAt \in {"client", "ping"} =>
        /\ countIssued = 0
        /\ findIssued = 0
        /\ pc \in {"exit", "done"}
        /\ exitCode \in {-1, 2}
        /\ (Terminated => exitCode = 2)

C1_Witness == Terminated /\ failedAt = "ping" /\ exitCode = 2

\* C2: when the ping succeeded and the count, the find or a later fetch
\* fails, the process ends with exit code 3 and the client is closed exactly
\* once, before the process exits.
C2_QueryFailureExits3 ==
    QueryFailed =>
        /\ pingIssued = 1
        /\ closes <= 1
        /\ exitCode \in {-1, 3}
        /\ (exitCode # -1 => closes = 1)
        /\ (Terminated => exitCode = 3 /\ closes = 1)

C2_Witness ==
    Terminated /\ failedAt = "fetch" /\ pos >= 1 /\ exitCode = 3 /\ closes = 1

\* C3: on every path where the ping succeeded the client is closed exactly
\* once by the time the process has ended, never twice, and no count or find
\* request is sent after the close.
C3_ReleasedExactlyOnce ==
    /\ [](closes <= 1)
    /\ []((Terminated /\ PingSucceeded) => closes = 1)
    /\ [][closes >= 1 =>
            countIssued' = countIssued /\ findIssued' = findIssued]_vars

C3_Witness ==
    Terminated /\ PingSucceeded /\ failedAt = "none"
        /\ NumBlocks = SAMPLE_LIMIT /\ closes = 1

\* C4 as stated: a run ending with exit code 0 prints exactly
\* min(SAMPLE_LIMIT, count) document blocks.
C4_Original ==
    (Terminated /\ exitCode = 0 /\ counted) =>
        NumBlocks = Min(SAMPLE_LIMIT, count)

\* C4 amended: a run ending with exit code 0 prints exactly the documents
\* the find cursor yields, at most SAMPLE_LIMIT of them and none when the
\* count was 0; that number is min(SAMPLE_LIMIT, count) when no other client
\* wrote to the collection between the count and the find.
C4_Amended ==
    (Terminated /\ exitCode = 0 /\ counted) =>
        /\ NumBlocks = Len(cursor)
        /\ NumBlocks <= SAMPLE_LIMIT
        /\ (count = 0 => NumBlocks = 0)
        /\ ((findIssued = 1 /\ writesAtFind = writesAtCount) =>
                NumBlocks = Min(SAMPLE_LIMIT, count))

C4_Witness ==
    Terminated /\ exitCode = 0 /\ count > SAMPLE_LIMIT
        /\ writesAtFind = writesAtCount /\ NumBlocks = SAMPLE_LIMIT

\* C5: when the count request returns 0 the run prints the empty-collection
\* message, sends no find, prints no document block, and ends with exit
\* code 0 after closing the client.
C5_EmptyCollection ==
    (counted /\ count = 0) =>
        /\ findIssued = 0
        /\ NumBlocks = 0
        /\ Len(SelectSeq(stdout, LAMBDA l : l[1] = "empty")) = 1
        /\ exitCode \in {-1, 0}
        /\ (exitCode # -1 => closes = 1)
        /\ (Terminated => exitCode = 0 /\ closes = 1)

C5_Witness ==
    Terminated /\ counted /\ count = 0 /\ Len(collection) > 0 /\ exitCode = 0

\* C6 as stated: in every state the count is >= 0 and the number of blocks
\* printed is <= SAMPLE_LIMIT and <= the count.
C6_Original ==
    /\ count >= 0
    /\ NumBlocks <= SAMPLE_LIMIT
    /\ (counted => NumBlocks <= count)

\* C6 amended: in every state the count is >= 0 and the number of blocks
\* printed is <= SAMPLE_LIMIT and <= the number of documents the find
\* returned; it is <= the count when no other client wrote to the
\* collection between the count and the find.
C6_Amended ==
    /\ count >= 0
    /\ NumBlocks <= SAMPLE_LIMIT
    /\ NumBlocks <= Len(cursor)
    /\ NumBlocks = pos
    /\ ((counted /\ writesAtFind = writesAtCount) => NumBlocks <= count)

C6_Witness ==
    QueryFailed /\ Terminated /\ NumBlocks = SAMPLE_LIMIT
        /\ count > SAMPLE_LIMIT

\* C7: every terminal state is reached after the client was closed, except
\* after a connection failure, and in no terminal state does a created but
\* unclosed client exist.
C7_NoUnclosedClientAtExit ==
    Terminated =>
        /\ (failedAt \notin {"client", "ping"} => closes = 1)
        /\ ~(clientCreated /\ closes = 0)

\* C8: every run eventually ends with one exit code in {0, 2, 3}; the code
\* is 0 exactly when no call failed; a run ending with 2 or 3 wrote exactly
\* one ERROR message and a run ending with 0 wrote none.
C8_TerminatesWithOneCode ==
    /\ <>Terminated
    /\ [](Terminated =>
            /\ exitCode \in {0, 2, 3}
            /\ (exitCode = 0 <=> failedAt = "none")
            /\ (exitCode = 2 <=> failedAt \in {"client", "ping"})
            /\ (exitCode = 3 <=> QueryFailed)
            /\ (exitCode \in {2, 3} => stderr = 1)
            /\ (exitCode = 0 => stderr = 0))
    /\ [][exitCode # -1 => exitCode' = exitCode]_vars

C8_Witness ==
    Terminated /\ exitCode = 3 /\ failedAt = "find" /\ stderr = 1

\* C9: the blocks printed so far are labelled 1..k without gap or repeat and
\* show the first k documents of the find result in cursor order; after a
\* failed fetch nothing more is printed and no new find is sent.
C9_BlocksFollowCursor ==
    /\ [](/\ pos <= Len(cursor)
          /\ Blocks(stdout) = [i \in 1..pos |-> <<"doc", i, cursor[i]>>])
    /\ [][failedAt = "fetch" =>
            stdout' = stdout /\ findIssued' = findIssued]_vars
    /\ [][failedAt' = "fetch" =>
            Blocks(stdout') = Blocks(stdout) /\ findIssued' = findIssued]_vars

C9_Witness ==
    Terminated /\ failedAt = "fetch" /\ NumBlocks = 2 /\ Len(cursor) > 2
        /\ cursor[1] # 1

\* C10: ping, count and find are each sent at most once; the count only
\* after a successful ping, the find only after a count that returned a
\* non-zero value; the status lines are printed only after the count
\* succeeded, so a run whose count fails leaves standard output empty.
C10_NoRetryStrictOrder ==
    /\ pingIssued <= 1
    /\ countIssued <= 1
    /\ findIssued <= 1
    /\ (countIssued = 1 => PingSucceeded)
    /\ (findIssued = 1 => counted /\ count # 0)
    /\ (stdout # <<>> => counted)
    /\ (counted => countIssued = 1 /\ failedAt # "count")
    /\ (failedAt = "count" => stdout = <<>>)

C10_Witness ==
    Terminated /\ failedAt = "count" /\ countIssued = 1 /\ stdout = <<>>

====
